---- MODULE Spec2Model ----
(***************************************************************************)
(* Model of runtime/libtapasco/src/scheduler.rs: the Scheduler that hands  *)
(* out PE handles from per-type idle pools (crossbeam Injector queues      *)
(* stored in a lockfree Map keyed by PEId).                                *)
(*                                                                         *)
(* A handle is identified by its slot index.  Every place a handle can be  *)
(* is a separate variable, so duplication or loss of a handle is a state   *)
(* the model can express.                                                  *)
(***************************************************************************)
EXTENDS Integers, Sequences, FiniteSets, TLC

\* ---- bounds ----
NumPE == 3
NumThreads == 2
\* handles a caller checks out at a time
MaxHeld == 1
\* longest catalog and largest PEId handed to Scheduler::new when the constructor
\* is run on every catalog
MaxCatalog == 4
MaxTypes == 3

\* ---- the catalog handed to Scheduler::new ----
Slots == 0 .. (NumPE - 1)
Threads == 1 .. NumThreads

\* pe.id of catalog entry i; for NumPE = 3 this is the catalog [1, 1, 2]
Catalog == [i \in Slots |-> IF i % 3 = 2 THEN 2 ELSE 1]

KnownTypes == {Catalog[i] : i \in Slots}

\* a PEId that no catalog entry declares
UnknownType == NumPE + 1

PEIds == KnownTypes \cup {UnknownType}

\* a handle built by PE::new outside of Scheduler::new, of an unknown type
Foreign == NumPE

Handles == Slots \cup {Foreign}

type_id(h) == IF h \in Slots THEN Catalog[h] ELSE UnknownType

VARIABLES
    pes,         \* Scheduler.pes: PEId -> Injector<PE> (FIFO of slot indices)
    held,        \* held[t]: handles owned by the caller running on thread t
    active,      \* the shared Active-set (active_pes), read by PE::active()
    enabled,     \* enabled[h]: interrupt line of slot h enabled
    pending,     \* pending[h]: interrupt of slot h pending (PE::interrupt_set)
    pc,          \* pc[t]: position of thread t
    arg,         \* arg[t]: `id` of acquire_pe / key of the pool the sweep is at
    stale,       \* stale[t]: the head read by t's steal has been moved since
    pe,          \* pe[t]: the local `pe` of reset_interrupts' loop (0 or 1 handle)
    remove_pes,  \* remove_pes[t]: the local Vec of reset_interrupts
    ret,         \* ret[t]: the value a call returned, until the caller takes it
    hwError,     \* history: some interrupt register operation has failed
    seq,         \* history: progress of two undisturbed successive sweeps (0..4)
    snap,        \* history: the handles of each pool when the first of them began
    new_pes,     \* the `pes` argument of Scheduler::new: pe.id of every entry
    new_i,       \* entries of new_pes that the loop of Scheduler::new has consumed
    start0,      \* history: handles checked out when the followed sweep was called
    out0         \* history: those of start0 not pushed to a pool since

vars == <<pes, held, active, enabled, pending, pc, arg, stale, pe, remove_pes,
          ret, hwError, seq, snap, new_pes, new_i, start0, out0>>

\* ---- return values ----
NoRet == [tag |-> "none", pe |-> {}, id |-> 0]
OkPE(h) == [tag |-> "Ok", pe |-> {h}, id |-> 0]
OkUnit == [tag |-> "OkUnit", pe |-> {}, id |-> 0]
NoSuchPE(id) == [tag |-> "NoSuchPE", pe |-> {}, id |-> id]
PEStillActive(h) == [tag |-> "PEStillActive", pe |-> {h}, id |-> 0]
PEError == [tag |-> "PEError", pe |-> {}, id |-> 0]
PEUnavailable(id) == [tag |-> "PEUnavailable", pe |-> {}, id |-> id]

\* ---- helpers ----
Range(s) == {s[i] : i \in 1 .. Len(s)}

\* ---- history of successive sweeps ----
\* seq = 1: a sweep that began with every other thread idle is running;
\* seq = 2: it returned Ok; seq = 3: the next sweep is running; seq = 4: it
\* returned Ok.  Any acquire_pe, release_pe or failed register operation puts
\* seq back to 0.
NoSnap == [id \in KnownTypes |-> {}]

Disturb == seq' = 0 /\ snap' = NoSnap

Undisturbed == UNCHANGED <<seq, snap>>

\* keys of the map in iteration order: position k (1-based) of pes.iter()
KeyAt(k) == CHOOSE id \in KnownTypes : Cardinality({j \in KnownTypes : j < id}) = k - 1

KeyIndex(id) == Cardinality({j \in KnownTypes : j < id}) + 1

\* Scheduler::new: one Injector per declared type, handles pushed in catalog order
RECURSIVE Build(_, _)
Build(i, id) ==
    IF i >= NumPE THEN <<>>
    ELSE IF Catalog[i] = id THEN <<i>> \o Build(i + 1, id)
    ELSE Build(i + 1, id)

New == [id \in KnownTypes |-> Build(0, id)]

\* the catalog as the Vec handed to Scheduler::new (entry i at index i + 1)
CatalogVec == [k \in 1 .. NumPE |-> Catalog[k - 1]]

\* the state when Scheduler::new has returned
Init ==
    /\ new_pes = CatalogVec
    /\ new_i = NumPE
    /\ start0 = {}
    /\ out0 = {}
    /\ pes = New
    /\ held = [t \in Threads |-> {}]
    /\ active = {}
    /\ enabled = [h \in Slots |-> FALSE]
    /\ pending \in [Slots -> BOOLEAN]
    /\ pc = [t \in Threads |-> "idle"]
    /\ arg = [t \in Threads |-> 0]
    /\ stale = [t \in Threads |-> FALSE]
    /\ pe = [t \in Threads |-> {}]
    /\ remove_pes = [t \in Threads |-> <<>>]
    /\ ret = [t \in Threads |-> NoRet]
    /\ hwError = FALSE
    /\ seq = 0
    /\ snap = NoSnap

\* ---- Injector ----
\* Injector::steal reads the head, finds the queue empty or not, and then moves
\* the head with a compare-exchange; the exchange fails (Steal::Retry) when
\* another steal moved the head in between.
StealPos == {"acq_cas", "sw_cas"}

\* threads whose pending compare-exchange on pool id is invalidated by t's steal
Invalidated(t, id) == {u \in Threads \ {t} : pc[u] \in StealPos /\ arg[u] = id}

\* mutant of Push: the pushed handle is lost
PushLost(id, h) == pes

\* Injector::push
Push(id, h) == [pes EXCEPT ![id] = Append(@, h)]

\* mutant of Pop: the entry of a pool that becomes empty is removed from the map
PopLastRemovesKey(id) ==
    IF Len(pes[id]) = 1
    THEN [k \in DOMAIN pes \ {id} |-> pes[k]]
    ELSE [pes EXCEPT ![id] = Tail(@)]

\* a successful compare-exchange of steal: the head handle leaves the pool
Pop(id) == [pes EXCEPT ![id] = Tail(@)]

\* PE::active()
IsActive(h) == h \in active

\* ---- Scheduler::new, step by step, on any catalog ----
Catalogs == UNION {[1 .. n -> 1 .. MaxTypes] : n \in 0 .. MaxCatalog}

\* PE::new(i, pe.id, ..): the handle of entry i (0-based) of the catalog
the_pe(i) == [slot |-> i, type_id |-> new_pes[i + 1]]

\* Map::new(), Set::new(): no pool yet, nobody active, no thread in a call
NewInit ==
    /\ new_pes \in Catalogs
    /\ new_i = 0
    /\ pes = [id \in {} |-> <<>>]
    /\ active = {}
    /\ held = [t \in Threads |-> {}]
    /\ enabled = [h \in Slots |-> FALSE]
    /\ pending = [h \in Slots |-> FALSE]
    /\ pc = [t \in Threads |-> "idle"]
    /\ arg = [t \in Threads |-> 0]
    /\ stale = [t \in Threads |-> FALSE]
    /\ pe = [t \in Threads |-> {}]
    /\ remove_pes = [t \in Threads |-> <<>>]
    /\ ret = [t \in Threads |-> NoRet]
    /\ hwError = FALSE
    /\ seq = 0
    /\ snap = NoSnap
    /\ start0 = {}
    /\ out0 = {}

\* mutant of NewStep: every entry inserts a fresh Injector under its type
NewStepReplace ==
    /\ new_i < Len(new_pes)
    /\ LET id == new_pes[new_i + 1]
       IN  pes' = [k \in DOMAIN pes \cup {id} |->
                     IF k = id THEN <<the_pe(new_i)>> ELSE pes[k]]
    /\ new_i' = new_i + 1
    /\ UNCHANGED <<held, active, enabled, pending, pc, arg, stale, pe, remove_pes,
                   ret, hwError, seq, snap, new_pes, start0, out0>>

\* one round of the loop of Scheduler::new; the map under construction
\* (pe_hashed) is the one the Scheduler is built from, so it is kept in pes
NewStep ==
    /\ new_i < Len(new_pes)
    /\ LET id == new_pes[new_i + 1]
       IN  pes' = IF id \in DOMAIN pes
                  THEN Push(id, the_pe(new_i))
                  ELSE [k \in DOMAIN pes \cup {id} |->
                          IF k = id THEN <<the_pe(new_i)>> ELSE pes[k]]
    /\ new_i' = new_i + 1
    /\ UNCHANGED <<held, active, enabled, pending, pc, arg, stale, pe, remove_pes,
                   ret, hwError, seq, snap, new_pes, start0, out0>>

NewNext == NewStep

NewSpec == NewInit /\ [][NewNext]_vars

\* ---- the caller ----
\* the caller takes the returned value; a catalog handle carried by Ok or by
\* PEStillActive becomes the caller's (a foreign handle is dropped)
Continue(t) ==
    /\ pc[t] = "returned"
    /\ held' = [held EXCEPT ![t] = @ \cup (ret[t].pe \cap Slots)]
    /\ ret' = [ret EXCEPT ![t] = NoRet]
    /\ pc' = [pc EXCEPT ![t] = "idle"]
    /\ arg' = [arg EXCEPT ![t] = 0]
    /\ Undisturbed
    /\ UNCHANGED <<pes, active, enabled, pending, stale, pe, remove_pes, hwError>>

\* the holder of a handle starts a job on it
Start(t, h) ==
    /\ pc[t] = "idle"
    /\ h \in held[t]
    /\ h \notin active
    /\ active' = active \cup {h}
    /\ Undisturbed
    /\ UNCHANGED <<pes, held, enabled, pending, pc, arg, stale, pe, remove_pes,
                   ret, hwError>>

\* the hardware completes the job of an active PE and raises its interrupt
Complete(h) ==
    /\ h \in active
    /\ active' = active \ {h}
    /\ pending' = [pending EXCEPT ![h] = TRUE]
    /\ Undisturbed
    /\ UNCHANGED <<pes, held, enabled, pc, arg, stale, pe, remove_pes, ret, hwError>>

\* ---- acquire_pe ----
\* mutant of AcquireCall: an unknown type is answered with PEUnavailable
AcquireCallUnavailable(t, id) ==
    /\ pc[t] = "idle"
    /\ Cardinality(held[t]) < MaxHeld
    /\ arg' = [arg EXCEPT ![t] = id]
    /\ IF id \in DOMAIN pes
       THEN /\ pc' = [pc EXCEPT ![t] = "acq_steal"]
            /\ ret' = ret
       ELSE /\ pc' = [pc EXCEPT ![t] = "returned"]
            /\ ret' = [ret EXCEPT ![t] = PEUnavailable(id)]
    /\ Disturb
    /\ UNCHANGED <<pes, held, active, enabled, pending, stale, pe, remove_pes, hwError>>

\* match self.pes.get(&id): Some(l) => the loop, None => Err(NoSuchPE { id })
AcquireCall(t, id) ==
    /\ pc[t] = "idle"
    /\ Cardinality(held[t]) < MaxHeld
    /\ arg' = [arg EXCEPT ![t] = id]
    /\ IF id \in DOMAIN pes
       THEN /\ pc' = [pc EXCEPT ![t] = "acq_steal"]
            /\ ret' = ret
       ELSE /\ pc' = [pc EXCEPT ![t] = "returned"]
            /\ ret' = [ret EXCEPT ![t] = NoSuchPE(id)]
    /\ Disturb
    /\ UNCHANGED <<pes, held, active, enabled, pending, stale, pe, remove_pes, hwError>>

\* mutant of AcquireSteal: Steal::Empty makes acquire_pe return PEUnavailable
AcquireStealUnavailable(t) ==
    /\ pc[t] = "acq_steal"
    /\ IF pes[arg[t]] = <<>>
       THEN /\ pc' = [pc EXCEPT ![t] = "returned"]
            /\ ret' = [ret EXCEPT ![t] = PEUnavailable(arg[t])]
       ELSE /\ pc' = [pc EXCEPT ![t] = "acq_cas"]
            /\ ret' = ret
    /\ Undisturbed
    /\ UNCHANGED <<pes, held, active, enabled, pending, arg, stale, pe, remove_pes,
                   hwError>>

\* l.val().steal(), first half: Steal::Empty leads to yield_now and the next try
AcquireSteal(t) ==
    /\ pc[t] = "acq_steal"
    /\ IF pes[arg[t]] = <<>>
       THEN pc' = pc
       ELSE pc' = [pc EXCEPT ![t] = "acq_cas"]
    /\ Undisturbed
    /\ UNCHANGED <<pes, held, active, enabled, pending, arg, stale, pe, remove_pes,
                   ret, hwError>>

\* mutant of AcquireCas: the stolen handle is dropped and the loop goes on
AcquireCasDrop(t) ==
    /\ pc[t] = "acq_cas"
    /\ IF stale[t]
       THEN /\ stale' = [stale EXCEPT ![t] = FALSE]
            /\ pes' = pes
       ELSE /\ pes' = Pop(arg[t])
            /\ stale' = [u \in Threads |-> u \in Invalidated(t, arg[t]) \/ stale[u]]
    /\ pc' = [pc EXCEPT ![t] = "acq_steal"]
    /\ Undisturbed
    /\ UNCHANGED <<held, active, enabled, pending, arg, pe, remove_pes, ret, hwError>>

\* mutant of AcquireCas: the head is handed out but stays in the pool
AcquireCasKeep(t) ==
    /\ pc[t] = "acq_cas"
    /\ IF stale[t]
       THEN /\ pc' = [pc EXCEPT ![t] = "acq_steal"]
            /\ stale' = [stale EXCEPT ![t] = FALSE]
            /\ UNCHANGED <<pes, ret>>
       ELSE /\ pes' = pes
            /\ ret' = [ret EXCEPT ![t] = OkPE(Head(pes[arg[t]]))]
            /\ pc' = [pc EXCEPT ![t] = "returned"]
            /\ stale' = stale
    /\ Undisturbed
    /\ UNCHANGED <<held, active, enabled, pending, arg, pe, remove_pes, hwError>>

\* l.val().steal(), second half: Steal::Retry, or Steal::Success(pe) => return Ok(pe)
AcquireCas(t) ==
    /\ pc[t] = "acq_cas"
    /\ IF stale[t]
       THEN /\ pc' = [pc EXCEPT ![t] = "acq_steal"]
            /\ stale' = [stale EXCEPT ![t] = FALSE]
            /\ UNCHANGED <<pes, ret>>
       ELSE /\ pes' = Pop(arg[t])
            /\ ret' = [ret EXCEPT ![t] = OkPE(Head(pes[arg[t]]))]
            /\ pc' = [pc EXCEPT ![t] = "returned"]
            /\ stale' = [u \in Threads |-> u \in Invalidated(t, arg[t]) \/ stale[u]]
    /\ Undisturbed
    /\ UNCHANGED <<held, active, enabled, pending, arg, pe, remove_pes, hwError>>

\* ---- release_pe ----
\* mutant of Release: the handle is pushed before pe.active() is looked at
ReleasePushFirst(t, h, act) ==
    /\ held' = [held EXCEPT ![t] = @ \ {h}]
    /\ pc' = [pc EXCEPT ![t] = "returned"]
    /\ IF type_id(h) \in DOMAIN pes
       THEN /\ pes' = Push(type_id(h), h)
            /\ ret' = [ret EXCEPT ![t] = IF act THEN PEStillActive(h) ELSE OkUnit]
       ELSE /\ ret' = [ret EXCEPT ![t] = NoSuchPE(type_id(h))]
            /\ pes' = pes
    /\ Disturb
    /\ UNCHANGED <<active, enabled, pending, arg, stale, pe, remove_pes, hwError>>

\* mutant of Release: the ensure!(!pe.active()) line is missing
ReleaseUnchecked(t, h, act) ==
    /\ held' = [held EXCEPT ![t] = @ \ {h}]
    /\ pc' = [pc EXCEPT ![t] = "returned"]
    /\ IF type_id(h) \in DOMAIN pes
       THEN /\ pes' = Push(type_id(h), h)
            /\ ret' = [ret EXCEPT ![t] = OkUnit]
       ELSE /\ ret' = [ret EXCEPT ![t] = NoSuchPE(type_id(h))]
            /\ pes' = pes
    /\ Disturb
    /\ UNCHANGED <<active, enabled, pending, arg, stale, pe, remove_pes, hwError>>

\* mutant of Release: a handle of an unknown type is dropped with Ok(())
ReleaseUnknownOk(t, h, act) ==
    /\ held' = [held EXCEPT ![t] = @ \ {h}]
    /\ pc' = [pc EXCEPT ![t] = "returned"]
    /\ IF act
       THEN /\ ret' = [ret EXCEPT ![t] = PEStillActive(h)]
            /\ pes' = pes
       ELSE IF type_id(h) \in DOMAIN pes
       THEN /\ pes' = Push(type_id(h), h)
            /\ ret' = [ret EXCEPT ![t] = OkUnit]
       ELSE /\ ret' = [ret EXCEPT ![t] = OkUnit]
            /\ pes' = pes
    /\ Disturb
    /\ UNCHANGED <<active, enabled, pending, arg, stale, pe, remove_pes, hwError>>

\* release_pe(pe) where pe is handle h and pe.active() answers act
Release(t, h, act) ==
    /\ held' = [held EXCEPT ![t] = @ \ {h}]
    /\ pc' = [pc EXCEPT ![t] = "returned"]
    /\ IF act
       THEN /\ ret' = [ret EXCEPT ![t] = PEStillActive(h)]
            /\ pes' = pes
       ELSE IF type_id(h) \in DOMAIN pes
       THEN /\ pes' = Push(type_id(h), h)
            /\ ret' = [ret EXCEPT ![t] = OkUnit]
       ELSE /\ ret' = [ret EXCEPT ![t] = NoSuchPE(type_id(h))]
            /\ pes' = pes
    /\ Disturb
    /\ UNCHANGED <<active, enabled, pending, arg, stale, pe, remove_pes, hwError>>

\* mutant of ReleasePe: release_pe takes the handle out of the Active-set
\* instead of refusing an active handle
ReleasePeDeactivate(t, h) ==
    /\ pc[t] = "idle"
    /\ h \in held[t]
    /\ held' = [held EXCEPT ![t] = @ \ {h}]
    /\ pc' = [pc EXCEPT ![t] = "returned"]
    /\ active' = active \ {h}
    /\ pes' = Push(type_id(h), h)
    /\ ret' = [ret EXCEPT ![t] = OkUnit]
    /\ Disturb
    /\ UNCHANGED <<enabled, pending, arg, stale, pe, remove_pes, hwError>>

\* the caller releases a handle it got from acquire_pe
ReleasePe(t, h) ==
    /\ pc[t] = "idle"
    /\ h \in held[t]
    /\ Release(t, h, IsActive(h))

\* the caller releases a handle of an unknown type that it built with PE::new;
\* that handle belongs to another Active-set, where it is active or not
ReleaseForeign(t, act) ==
    /\ pc[t] = "idle"
    /\ Release(t, Foreign, act)

\* ---- reset_interrupts ----
\* for v in self.pes.iter(): the first pool; remove_pes = Vec::new()
SweepCall(t) ==
    /\ pc[t] = "idle"
    /\ pc' = [pc EXCEPT ![t] = "sw_steal"]
    /\ arg' = [arg EXCEPT ![t] = KeyAt(1)]
    /\ IF seq = 2
       THEN seq' = 3 /\ snap' = snap
       ELSE IF \A u \in Threads \ {t} : pc[u] = "idle"
       THEN seq' = 1 /\ snap' = [id \in KnownTypes |-> Range(pes[id])]
       ELSE Disturb
    /\ UNCHANGED <<pes, held, active, enabled, pending, stale, pe, remove_pes, ret,
                   hwError>>

\* mutant of SweepSteal: on Steal::Empty the sweep tries again, as acquire_pe does
SweepStealWaits(t) ==
    /\ pc[t] = "sw_steal"
    /\ IF pes[arg[t]] = <<>>
       THEN pc' = pc
       ELSE pc' = [pc EXCEPT ![t] = "sw_cas"]
    /\ Undisturbed
    /\ UNCHANGED <<pes, held, active, enabled, pending, arg, stale, pe, remove_pes,
                   ret, hwError>>

\* v.val().steal(), first half; Steal::Empty ends the while-let loop
SweepSteal(t) ==
    /\ pc[t] = "sw_steal"
    /\ IF pes[arg[t]] = <<>>
       THEN pc' = [pc EXCEPT ![t] = "sw_restore"]
       ELSE pc' = [pc EXCEPT ![t] = "sw_cas"]
    /\ Undisturbed
    /\ UNCHANGED <<pes, held, active, enabled, pending, arg, stale, pe, remove_pes,
                   ret, hwError>>

\* mutant of SweepCas: the sweep reads the head handle and leaves it in the pool
SweepCasPeek(t) ==
    /\ pc[t] = "sw_cas"
    /\ IF stale[t]
       THEN /\ pc' = [pc EXCEPT ![t] = "sw_restore"]
            /\ stale' = [stale EXCEPT ![t] = FALSE]
            /\ UNCHANGED <<pes, pe>>
       ELSE /\ pes' = pes
            /\ pe' = [pe EXCEPT ![t] = {Head(pes[arg[t]])}]
            /\ pc' = [pc EXCEPT ![t] = "sw_enable"]
            /\ stale' = stale
    /\ Undisturbed
    /\ UNCHANGED <<held, active, enabled, pending, arg, remove_pes, ret, hwError>>

\* v.val().steal(), second half; Steal::Retry ends the while-let loop as well
SweepCas(t) ==
    /\ pc[t] = "sw_cas"
    /\ IF stale[t]
       THEN /\ pc' = [pc EXCEPT ![t] = "sw_restore"]
            /\ stale' = [stale EXCEPT ![t] = FALSE]
            /\ UNCHANGED <<pes, pe>>
       ELSE /\ pes' = Pop(arg[t])
            /\ pe' = [pe EXCEPT ![t] = {Head(pes[arg[t]])}]
            /\ pc' = [pc EXCEPT ![t] = "sw_enable"]
            /\ stale' = [u \in Threads |-> u \in Invalidated(t, arg[t]) \/ stale[u]]
    /\ Undisturbed
    /\ UNCHANGED <<held, active, enabled, pending, arg, remove_pes, ret, hwError>>

\* the handle bound to `pe` in the loop body
ThePe(t) == CHOOSE h \in pe[t] : TRUE

\* remove_pes.push(pe); maybe_pe = v.val().steal()
KeepPe(t) ==
    /\ remove_pes' = [remove_pes EXCEPT ![t] = Append(@, ThePe(t))]
    /\ pe' = [pe EXCEPT ![t] = {}]
    /\ pc' = [pc EXCEPT ![t] = "sw_steal"]

\* pe.enable_interrupt().context(PEError)? succeeds
SweepEnable(t) ==
    /\ pc[t] = "sw_enable"
    /\ enabled' = [enabled EXCEPT ![ThePe(t)] = TRUE]
    /\ pc' = [pc EXCEPT ![t] = "sw_query"]
    /\ Undisturbed
    /\ UNCHANGED <<pes, held, active, pending, arg, stale, pe, remove_pes, ret,
                   hwError>>

\* mutant of SweepQuery: a pending interrupt is not acknowledged
SweepQuerySkip(t) ==
    /\ pc[t] = "sw_query"
    /\ KeepPe(t)
    /\ Undisturbed
    /\ UNCHANGED <<pes, held, active, enabled, pending, arg, stale, ret, hwError>>

\* mutant of SweepQuery: reset_interrupt is issued whatever interrupt_set answers
SweepQueryAlways(t) ==
    /\ pc[t] = "sw_query"
    /\ pc' = [pc EXCEPT ![t] = "sw_reset"]
    /\ Undisturbed
    /\ UNCHANGED <<pes, held, active, enabled, pending, arg, stale, pe, remove_pes,
                   ret, hwError>>

\* pe.interrupt_set().context(PEError)? succeeds
SweepQuery(t) ==
    /\ pc[t] = "sw_query"
    /\ IF pending[ThePe(t)]
       THEN /\ pc' = [pc EXCEPT ![t] = "sw_reset"]
            /\ UNCHANGED <<pe, remove_pes>>
       ELSE KeepPe(t)
    /\ Undisturbed
    /\ UNCHANGED <<pes, held, active, enabled, pending, arg, stale, ret, hwError>>

\* pe.reset_interrupt(true).context(PEError)? succeeds
SweepReset(t) ==
    /\ pc[t] = "sw_reset"
    /\ pending' = [pending EXCEPT ![ThePe(t)] = FALSE]
    /\ KeepPe(t)
    /\ Undisturbed
    /\ UNCHANGED <<pes, held, active, enabled, arg, stale, ret, hwError>>

RegOpPos == {"sw_enable", "sw_query", "sw_reset"}

\* the register operation t is about to issue fails: `?` returns the wrapped
\* error, and the locals `pe` and `remove_pes` are dropped with their handles
\* mutant of SweepFail: the error of the register operation is ignored and the
\* sweep goes on with the next handle
SweepFailIgnored(t) ==
    /\ pc[t] \in RegOpPos
    /\ KeepPe(t)
    /\ hwError' = TRUE
    /\ Disturb
    /\ UNCHANGED <<pes, held, active, enabled, pending, arg, stale, ret>>

SweepFail(t) ==
    /\ pc[t] \in RegOpPos
    /\ ret' = [ret EXCEPT ![t] = PEError]
    /\ pc' = [pc EXCEPT ![t] = "returned"]
    /\ pe' = [pe EXCEPT ![t] = {}]
    /\ remove_pes' = [remove_pes EXCEPT ![t] = <<>>]
    /\ hwError' = TRUE
    /\ Disturb
    /\ UNCHANGED <<pes, held, active, enabled, pending, arg, stale>>

\* mutant of SweepRestore: the drained handles are pushed to the first pool
SweepRestoreFirstPool(t) ==
    /\ pc[t] = "sw_restore"
    /\ IF remove_pes[t] # <<>>
       THEN /\ pes' = Push(KeyAt(1), Head(remove_pes[t]))
            /\ remove_pes' = [remove_pes EXCEPT ![t] = Tail(@)]
            /\ UNCHANGED <<pc, arg, ret, seq>>
       ELSE IF KeyIndex(arg[t]) < Cardinality(KnownTypes)
       THEN /\ arg' = [arg EXCEPT ![t] = KeyAt(KeyIndex(arg[t]) + 1)]
            /\ pc' = [pc EXCEPT ![t] = "sw_steal"]
            /\ UNCHANGED <<pes, remove_pes, ret, seq>>
       ELSE /\ ret' = [ret EXCEPT ![t] = OkUnit]
            /\ pc' = [pc EXCEPT ![t] = "returned"]
            /\ seq' = IF seq \in {1, 3} THEN seq + 1 ELSE seq
            /\ UNCHANGED <<pes, remove_pes, arg>>
    /\ UNCHANGED <<held, active, enabled, pending, stale, pe, hwError, snap>>

\* for pe in remove_pes.into_iter() { v.val().push(pe) }, then the next pool,
\* and Ok(()) after the last
SweepRestore(t) ==
    /\ pc[t] = "sw_restore"
    /\ IF remove_pes[t] # <<>>
       THEN /\ pes' = Push(arg[t], Head(remove_pes[t]))
            /\ remove_pes' = [remove_pes EXCEPT ![t] = Tail(@)]
            /\ UNCHANGED <<pc, arg, ret, seq>>
       ELSE IF KeyIndex(arg[t]) < Cardinality(KnownTypes)
       THEN /\ arg' = [arg EXCEPT ![t] = KeyAt(KeyIndex(arg[t]) + 1)]
            /\ pc' = [pc EXCEPT ![t] = "sw_steal"]
            /\ UNCHANGED <<pes, remove_pes, ret, seq>>
       ELSE /\ ret' = [ret EXCEPT ![t] = OkUnit]
            /\ pc' = [pc EXCEPT ![t] = "returned"]
            /\ seq' = IF seq \in {1, 3} THEN seq + 1 ELSE seq
            /\ UNCHANGED <<pes, remove_pes, arg>>
    /\ UNCHANGED <<held, active, enabled, pending, stale, pe, hwError, snap>>

\* the actions above leave the constructor's variables and the histories of
\* checked-out handles alone
Untracked == UNCHANGED <<new_pes, new_i, start0, out0>>

Next ==
    \/ \E t \in Threads : Continue(t) /\ Untracked
    \/ \E t \in Threads, h \in Slots : Start(t, h) /\ Untracked
    \/ \E h \in Slots : Complete(h) /\ Untracked
    \/ \E t \in Threads, id \in PEIds : AcquireCall(t, id) /\ Untracked
    \/ \E t \in Threads : AcquireSteal(t) /\ Untracked
    \/ \E t \in Threads : AcquireCas(t) /\ Untracked
    \/ \E t \in Threads, h \in Slots : ReleasePe(t, h) /\ Untracked
    \/ \E t \in Threads, act \in BOOLEAN : ReleaseForeign(t, act) /\ Untracked
    \/ \E t \in Threads : SweepCall(t) /\ Untracked
    \/ \E t \in Threads : SweepSteal(t) /\ Untracked
    \/ \E t \in Threads : SweepCas(t) /\ Untracked
    \/ \E t \in Threads : SweepEnable(t) /\ Untracked
    \/ \E t \in Threads : SweepQuery(t) /\ Untracked
    \/ \E t \in Threads : SweepReset(t) /\ Untracked
    \/ \E t \in Threads : SweepFail(t) /\ Untracked
    \/ \E t \in Threads : SweepRestore(t) /\ Untracked

Spec == Init /\ [][Next]_vars

\* ---- fair scheduling ----
\* the steps thread t takes inside a call, and taking the returned value
Run(t) ==
    /\ \/ Continue(t)
       \/ AcquireSteal(t)
       \/ AcquireCas(t)
       \/ SweepSteal(t)
       \/ SweepCas(t)
       \/ SweepEnable(t)
       \/ SweepQuery(t)
       \/ SweepReset(t)
       \/ SweepRestore(t)
    /\ Untracked

\* the scheduler's operations with every register operation succeeding and with
\* no job started on a handle, so that every release_pe of a held handle succeeds
LiveNext ==
    \/ \E t \in Threads : Continue(t) /\ Untracked
    \/ \E t \in Threads, id \in PEIds : AcquireCall(t, id) /\ Untracked
    \/ \E t \in Threads : AcquireSteal(t) /\ Untracked
    \/ \E t \in Threads : AcquireCas(t) /\ Untracked
    \/ \E t \in Threads, h \in Slots : ReleasePe(t, h) /\ Untracked
    \/ \E t \in Threads, act \in BOOLEAN : ReleaseForeign(t, act) /\ Untracked
    \/ \E t \in Threads : SweepCall(t) /\ Untracked
    \/ \E t \in Threads : SweepSteal(t) /\ Untracked
    \/ \E t \in Threads : SweepCas(t) /\ Untracked
    \/ \E t \in Threads : SweepEnable(t) /\ Untracked
    \/ \E t \in Threads : SweepQuery(t) /\ Untracked
    \/ \E t \in Threads : SweepReset(t) /\ Untracked
    \/ \E t \in Threads : SweepRestore(t) /\ Untracked

\* every thread that can take a step inside a call eventually takes one (the OS
\* schedules every runnable thread), and every caller that holds a handle
\* eventually calls release_pe
Fairness ==
    \A t \in Threads :
        /\ WF_vars(Run(t))
        /\ SF_vars(\E h \in Slots : ReleasePe(t, h) /\ Untracked)

LiveSpec == Init /\ [][LiveNext]_vars /\ Fairness

\* ---- where a handle is ----
PoolPlaces(h) ==
    UNION {{<<"pool", id, i>> : i \in {j \in 1 .. Len(pes[id]) : pes[id][j] = h}} :
           id \in DOMAIN pes}

\* places outside the pools: a caller, a returned value on its way to the caller,
\* the `pe` or the `remove_pes` of a running sweep
OutPlaces(h) ==
    {<<"held", t, 0>> : t \in {u \in Threads : h \in held[u]}}
    \cup {<<"ret", t, 0>> : t \in {u \in Threads : h \in ret[u].pe}}
    \cup {<<"pe", t, 0>> : t \in {u \in Threads : h \in pe[u]}}
    \cup UNION {{<<"remove_pes", t, i>> :
                   i \in {j \in 1 .. Len(remove_pes[t]) : remove_pes[t][j] = h}} :
                t \in Threads}

Places(h) == Cardinality(PoolPlaces(h)) + Cardinality(OutPlaces(h))

OfType(id) == {h \in Slots : type_id(h) = id}

Idle(id) == Len(pes[id])

CheckedOut(id) == Cardinality(UNION {{<<h, p>> : p \in OutPlaces(h)} : h \in OfType(id)})

HeldByCaller == UNION {held[t] \cup ret[t].pe : t \in Threads}

AcqPos == {"acq_steal", "acq_cas"}

SweepPos == {"sw_steal", "sw_cas", "sw_enable", "sw_query", "sw_reset", "sw_restore"}

\* ---- C1 ----
\* C1: in every reachable state every handle of the catalog is in exactly one
\* place (one position of one pool, one caller, or the locals of one running
\* sweep), and a handle that acquire_pe returned is in no pool.
C1_ExactlyOneLocation ==
    /\ \A h \in Slots : Places(h) = 1
    /\ \A t \in Threads : ret[t].tag = "Ok" => \A h \in ret[t].pe : PoolPlaces(h) = {}

\* ---- C2 ----
\* C2: as long as no register operation has failed, for every type the handles
\* idle in its pool plus the handles checked out (held, carried by a returned
\* value, or in the locals of a running sweep) are as many as the catalog
\* entries of that type.
C2_Conservation ==
    ~hwError => \A id \in KnownTypes : Idle(id) + CheckedOut(id) = Cardinality(OfType(id))

\* a caller holds a handle while a running sweep keeps a drained one
C2_Witness ==
    /\ ~hwError
    /\ \E t, u \in Threads : held[t] # {} /\ remove_pes[u] # <<>>

\* ---- C3 ----
\* C3: a release_pe of a handle that is active at the call returns PEStillActive
\* carrying that handle and leaves every pool as it was.
C3_ActiveGuard ==
    [][/\ \A t \in Threads, h \in Slots :
             (pc[t] = "idle" /\ h \in held[t] /\ h \notin held'[t] /\ h \in active)
                => (pc'[t] = "returned" /\ ret'[t] = PEStillActive(h) /\ pes' = pes)
       /\ \A t \in Threads :
             ReleaseForeign(t, TRUE) => (ret'[t] = PEStillActive(Foreign) /\ pes' = pes)
      ]_vars

\* a release_pe of an active catalog handle has returned
C3_Witness ==
    \E t \in Threads :
        /\ pc[t] = "returned"
        /\ ret[t].tag = "PEStillActive"
        /\ ret[t].pe \subseteq active

\* ---- C4 ----
\* C4: no handle that is inside a pool is in the Active-set.
C4_IdleNeverActive ==
    \A id \in DOMAIN pes : \A i \in 1 .. Len(pes[id]) : pes[id][i] \notin active

\* a release_pe has pushed a handle while another handle is active
C4_Witness ==
    \E t \in Threads :
        /\ pc[t] = "returned" /\ ret[t] = OkUnit /\ arg[t] = 0
        /\ active # {}
        /\ \E id \in DOMAIN pes : \E i \in 1 .. Len(pes[id]) : pending[pes[id][i]]

\* ---- C5 ----
\* C5: acquire_pe of a type that is no key of the map returns NoSuchPE of that
\* type in the step of the call, without entering the retry loop and without
\* changing a pool or the key set.
C5_UnknownAcquire ==
    /\ [](\A t \in Threads : pc[t] \in AcqPos => arg[t] \in DOMAIN pes)
    /\ [][\A t \in Threads :
            (pc[t] = "idle" /\ arg'[t] # 0 /\ arg'[t] \notin DOMAIN pes)
               => (pc'[t] = "returned" /\ ret'[t] = NoSuchPE(arg'[t]) /\ pes' = pes)
         ]_vars

\* an acquire_pe of the unknown type has returned
C5_Witness ==
    \E t \in Threads :
        pc[t] = "returned" /\ arg[t] = UnknownType /\ ret[t] = NoSuchPE(UnknownType)

\* ---- C6 ----
\* C6 as claimed: release_pe of a handle of an unknown type, active or not,
\* returns NoSuchPE and changes no pool.
C6_Original ==
    [][\A t \in Threads, act \in BOOLEAN :
          ReleaseForeign(t, act) => (ret'[t] = NoSuchPE(UnknownType) /\ pes' = pes)
      ]_vars

\* C6 as amended: release_pe of a handle of an unknown type changes no pool; it
\* returns NoSuchPE when the handle is inactive at the call and PEStillActive
\* carrying the handle when it is active.
C6_Amended ==
    [][\A t \in Threads, act \in BOOLEAN :
          ReleaseForeign(t, act)
             => /\ pes' = pes
                /\ ret'[t] = IF act THEN PEStillActive(Foreign) ELSE NoSuchPE(UnknownType)
      ]_vars

\* a release_pe of an inactive handle of the unknown type has returned
C6_Witness ==
    \E t \in Threads :
        pc[t] = "returned" /\ arg[t] = 0 /\ ret[t] = NoSuchPE(UnknownType)

\* ---- C7 ----
\* C7: acquire_pe of a known type returns only in a step that removes the head
\* handle of that pool and returns it; it does not return from an empty pool,
\* and no call ever returns PEUnavailable.
C7_AcquireReturnsHandle ==
    /\ [](\A t \in Threads : ret[t].tag # "PEUnavailable")
    /\ [][\A t \in Threads :
            (pc[t] \in AcqPos /\ pc'[t] # pc[t])
               => \/ pc'[t] \in AcqPos
                  \/ /\ pc'[t] = "returned"
                     /\ pes[arg[t]] # <<>>
                     /\ ret'[t] = OkPE(Head(pes[arg[t]]))
                     /\ pes' = [pes EXCEPT ![arg[t]] = Tail(@)]
         ]_vars

\* an acquire_pe is pending on an empty pool while callers hold all handles of
\* that type
C7_Witness ==
    \E t \in Threads :
        /\ pc[t] = "acq_steal"
        /\ pes[arg[t]] = <<>>
        /\ \A h \in OfType(arg[t]) : \E u \in Threads \ {t} : h \in held[u]

\* ---- C9 ----
\* some thread takes a step of reset_interrupts
SweepStep(t) ==
    /\ pc[t] \in SweepPos
    /\ pc'[t] # pc[t] \/ remove_pes'[t] # remove_pes[t]

\* C9: a handle that a caller holds is neither the `pe` nor in the remove_pes
\* of a running sweep, and no step of a sweep changes the interrupt state of a
\* handle that a caller holds.
C9_SweepSkipsCheckedOut ==
    /\ [](\A t \in Threads, h \in HeldByCaller :
             h \notin pe[t] /\ h \notin Range(remove_pes[t]))
    /\ [][\A t \in Threads :
            SweepStep(t)
               => \A h \in HeldByCaller \cap Slots :
                     enabled'[h] = enabled[h] /\ pending'[h] = pending[h]
         ]_vars

\* a sweep is about to issue a register operation on a handle of a pool while a
\* caller holds another handle of that pool with its interrupt pending
C9_Witness ==
    \E t, u \in Threads, h \in Slots :
        /\ pc[t] \in RegOpPos
        /\ h \in held[u]
        /\ type_id(h) = arg[t]
        /\ pending[h] /\ ~enabled[h]

\* ---- C10 ----
\* C10: after the first and after the second of two successive sweeps that ran
\* with no acquire_pe, no release_pe and no failing register operation in
\* between, no handle idle in a pool has its interrupt pending, and every pool
\* holds the handles it held when the first sweep began, each once.
C10_SweepIdempotent ==
    seq \in {2, 4}
       => \A id \in DOMAIN pes :
             /\ \A i \in 1 .. Len(pes[id]) : ~pending[pes[id][i]]
             /\ Range(pes[id]) = snap[id]
             /\ Len(pes[id]) = Cardinality(snap[id])

\* the second sweep has returned; a pool holds two handles and a caller holds a
\* handle that neither sweep drained
C10_Witness ==
    /\ seq = 4
    /\ \E id \in DOMAIN pes : Len(pes[id]) > 1
    /\ \E t \in Threads : held[t] # {}

\* ---- C8 ----
\* thread t has an acquire_pe pending and the pool it asks holds an idle handle
PendingOnIdle(t) == pc[t] \in AcqPos /\ pes[arg[t]] # <<>>

\* another thread has just removed a handle from the pool t asks
OtherTook(t) ==
    \E u \in Threads \ {t} :
        /\ arg[u] = arg[t]
        /\ \/ pc[u] = "returned" /\ ret[u].tag = "Ok"
           \/ pc[u] = "sw_enable"

\* C8 as claimed: under fair scheduling, with every holder releasing and every
\* sweep completing, a pending acquire_pe returns a handle once its pool holds
\* an idle handle.
C8_Original ==
    \A t \in Threads : PendingOnIdle(t) ~> (pc[t] = "returned" /\ ret[t].tag = "Ok")

\* C8 as amended: under fair scheduling, once the pool of a pending acquire_pe
\* holds an idle handle, that acquire_pe returns a handle or another thread
\* removes a handle from that pool.
C8_Amended ==
    \A t \in Threads :
        PendingOnIdle(t) ~> ((pc[t] = "returned" /\ ret[t].tag = "Ok") \/ OtherTook(t))

\* a pending acquire_pe has lost the head to another thread's steal while its
\* pool still holds an idle handle
C8_Witness ==
    \E t \in Threads : PendingOnIdle(t) /\ pc[t] = "acq_cas" /\ stale[t]

\* ---- C11 ----
\* C11: when Scheduler::new has consumed the whole catalog, the keys of the map
\* are the types the catalog declares, the pool of a type holds exactly the
\* handles of the entries of that type, each once, the handle of entry i having
\* slot index i and the type entry i declares; no handle is held or in a call,
\* and nothing is active.  On the catalog of this model the pools are the ones
\* every run of the scheduler starts from.
EntriesOf(T) == {k \in 1 .. Len(new_pes) : new_pes[k] = T}

C11_ConstructionPartitions ==
    new_i = Len(new_pes) =>
        /\ DOMAIN pes = Range(new_pes)
        /\ \A T \in DOMAIN pes :
              /\ Range(pes[T]) = {[slot |-> k - 1, type_id |-> T] : k \in EntriesOf(T)}
              /\ Len(pes[T]) = Cardinality(EntriesOf(T))
        /\ \A t \in Threads :
              held[t] = {} /\ ret[t].pe = {} /\ pe[t] = {} /\ remove_pes[t] = <<>>
        /\ active = {}
        /\ new_pes = CatalogVec =>
              /\ [id \in DOMAIN pes |-> [k \in 1 .. Len(pes[id]) |-> pes[id][k].slot]] = New
              /\ \A id \in DOMAIN pes : \A k \in 1 .. Len(pes[id]) :
                    type_id(pes[id][k].slot) = pes[id][k].type_id

\* the constructor has finished a catalog of the greatest length that declares
\* two types, one of them more than once
C11_Witness ==
    /\ new_i = Len(new_pes)
    /\ Len(new_pes) = MaxCatalog
    /\ Cardinality(DOMAIN pes) >= 2
    /\ \E T \in DOMAIN pes : Len(pes[T]) >= 2

\* ---- C12 ----
\* C12: a release_pe that returns Ok(()) for handle h appends h once to the pool
\* of h's type and changes nothing else: no other pool, not the keys of the map,
\* not the Active-set, no interrupt state, no other thread's handles.  A step
\* that changes the Active-set is not a step of a scheduler operation: it leaves
\* the pools, every thread's position and locals and every returned value alone.
C12_ReleaseEffect ==
    [][/\ \A t \in Threads, h \in Slots :
             (pc[t] = "idle" /\ h \in held[t] /\ h \notin held'[t] /\ ret'[t] = OkUnit)
                => /\ h \notin active
                   /\ pes' = [pes EXCEPT ![type_id(h)] = pes[type_id(h)] \o <<h>>]
                   /\ DOMAIN pes' = DOMAIN pes
                   /\ active' = active
                   /\ enabled' = enabled
                   /\ pending' = pending
                   /\ \A u \in Threads \ {t} : held'[u] = held[u]
                   /\ UNCHANGED <<pe, remove_pes>>
       /\ active' # active => UNCHANGED <<pes, held, pc, arg, stale, pe, remove_pes, ret>>
      ]_vars

\* a release_pe has returned Ok(()) while another thread is inside a sweep or
\* holds a handle, and some handle is active
C12_Witness ==
    \E t \in Threads :
        /\ pc[t] = "returned"
        /\ arg[t] = 0
        /\ ret[t] = OkUnit
        /\ active # {}
        /\ \E u \in Threads \ {t} : held[u] # {} \/ pe[u] # {}

\* ---- C13 ----
\* C13: the drain of a pool by reset_interrupts ends only on a steal that finds
\* the pool empty; a steal that loses its compare-exchange to another thread
\* (Steal::Retry) does not end the drain, so no handle is idle in the pool at the
\* step that ends its drain.
C13_DrainStopsOnlyOnEmpty ==
    [][\A t \in Threads :
          (pc[t] \in {"sw_steal", "sw_cas"} /\ pc'[t] = "sw_restore")
             => (pc[t] = "sw_steal" /\ pes[arg[t]] = <<>>)
      ]_vars

\* ---- C14 ----
\* C14: when reset_interrupts returns PEError because a register operation
\* failed, every handle the sweep had removed from a pool, the failing handle
\* included, is back in the pool of its type.
C14_NoHandleLostOnFailure ==
    [][\A t \in Threads :
          (pc[t] \in RegOpPos /\ pc'[t] = "returned" /\ ret'[t] = PEError)
             => \A h \in pe[t] \cup Range(remove_pes[t]) : h \in Range(pes'[type_id(h)])
      ]_vars

\* ---- C15 ----
\* C15: the step in which a register operation of a sweep fails is the step in
\* which reset_interrupts returns PEError: it removes nothing from any pool and
\* changes no interrupt state, and the thread takes no further step of that
\* sweep.  reset_interrupts returns Ok(()) only from the end of its loop over
\* the pools, which a sweep with a failed operation never reaches.
C15_SweepAbortsOnFailure ==
    [][\A t \in Threads :
          /\ SweepFail(t)
                => /\ pc'[t] = "returned"
                   /\ ret'[t] = PEError
                   /\ pes' = pes
                   /\ enabled' = enabled
                   /\ pending' = pending
          /\ (pc[t] = "returned" /\ ret[t] = PEError)
                => (pc'[t] \in {"returned", "idle"} /\ pe'[t] = {} /\ remove_pes'[t] = <<>>)
          /\ (pc[t] \in SweepPos /\ ret'[t] = OkUnit)
                => /\ pc[t] = "sw_restore"
                   /\ remove_pes[t] = <<>>
                   /\ KeyIndex(arg[t]) = Cardinality(KnownTypes)
      ]_vars

\* a sweep has returned PEError from the first pool while the pool of a type
\* it had not visited yet holds a handle
C15_Witness ==
    \E t \in Threads :
        /\ pc[t] = "returned"
        /\ ret[t] = PEError
        /\ arg[t] = KeyAt(1)
        /\ pes[KeyAt(2)] # <<>>
        /\ \E h \in Slots : ~enabled[h]

\* ---- C16 ----
\* handles in no pool: with a caller, in a returned value, or in a sweep's locals
OutOfPools == {h \in Slots : OutPlaces(h) # {}}

\* the handle that the step pushes to a pool (Injector::push appends)
Pushed == {pes'[id][Len(pes'[id])] : id \in {k \in DOMAIN pes : Len(pes'[k]) > Len(pes[k])}}

\* the thread whose sweeps are followed (the threads run the same code)
Sweeper == 1

\* history of a step of thread t: when the sweeper calls reset_interrupts, the
\* handles checked out at that moment are recorded; a handle pushed into a pool
\* leaves out0; the records are dropped when the sweep returns
Track(t) ==
    /\ start0' = IF pc'[Sweeper] \notin SweepPos THEN {}
                 ELSE IF pc[Sweeper] \notin SweepPos THEN OutOfPools
                 ELSE start0
    /\ out0' = IF pc'[Sweeper] \notin SweepPos THEN {}
               ELSE IF pc[Sweeper] \notin SweepPos THEN OutOfPools
               ELSE out0 \ Pushed
    /\ UNCHANGED <<new_pes, new_i>>

\* the scheduler's operations with the history of checked-out handles kept and
\* with no job started on a handle (the Active-set stays empty, so every
\* release_pe of a catalog handle pushes it)
TrackNext ==
    \/ \E t \in Threads : Continue(t) /\ Track(t)
    \/ \E t \in Threads, id \in PEIds : AcquireCall(t, id) /\ Track(t)
    \/ \E t \in Threads : AcquireSteal(t) /\ Track(t)
    \/ \E t \in Threads : AcquireCas(t) /\ Track(t)
    \/ \E t \in Threads, h \in Slots : ReleasePe(t, h) /\ Track(t)
    \/ \E t \in Threads, act \in BOOLEAN : ReleaseForeign(t, act) /\ Track(t)
    \/ \E t \in Threads : SweepCall(t) /\ Track(t)
    \/ \E t \in Threads : SweepSteal(t) /\ Track(t)
    \/ \E t \in Threads : SweepCas(t) /\ Track(t)
    \/ \E t \in Threads : SweepEnable(t) /\ Track(t)
    \/ \E t \in Threads : SweepQuery(t) /\ Track(t)
    \/ \E t \in Threads : SweepReset(t) /\ Track(t)
    \/ \E t \in Threads : SweepFail(t) /\ Track(t)
    \/ \E t \in Threads : SweepRestore(t) /\ Track(t)

TrackSpec == Init /\ [][TrackNext]_vars

\* handles the followed sweep has removed from a pool and not pushed back
Drained == pe[Sweeper] \cup Range(remove_pes[Sweeper])

C17_Order(t) ==
    /\ (pc'[t] = "sw_enable" /\ pc[t] # "sw_enable")
          => (pc[t] = "sw_cas" /\ pe'[t] = {Head(pes[arg[t]])} /\ pes' = Pop(arg[t]))
    /\ (pc'[t] = "sw_query" /\ pc[t] # "sw_query")
          => (pc[t] = "sw_enable" /\ pe'[t] = pe[t] /\ enabled'[ThePe(t)])
    /\ (pc'[t] = "sw_reset" /\ pc[t] # "sw_reset")
          => (pc[t] = "sw_query" /\ pe'[t] = pe[t] /\ pending[ThePe(t)])
    /\ (pc[t] = "sw_query" /\ pc'[t] \notin {"sw_query", "returned"})
          => (pc'[t] = "sw_reset" <=> pending[ThePe(t)])
    /\ (pc[t] \in {"sw_enable", "sw_query", "sw_reset"} /\ pc'[t] = "sw_steal")
          => /\ pc[t] # "sw_enable"
             /\ remove_pes'[t] = Append(remove_pes[t], ThePe(t))
             /\ pe'[t] = {}
             /\ ~pending'[ThePe(t)]

C17_Kept(t) ==
    /\ pc[t] \in RegOpPos <=> pe[t] # {}
    /\ Cardinality(pe[t]) <= 1
    /\ \A h \in pe[t] : PoolPlaces(h) = {} /\ h \notin Range(remove_pes[t])
    /\ Cardinality(Range(remove_pes[t])) = Len(remove_pes[t])
    /\ \A h \in Range(remove_pes[t]) : PoolPlaces(h) = {} /\ enabled[h] /\ ~pending[h]

C17_PerHandleProtocol ==
    /\ [](\A t \in Threads : C17_Kept(t))
    /\ [](seq \in {2, 4} => \A id \in DOMAIN pes : \A h \in Range(pes[id]) :
                                enabled[h] /\ ~pending[h])
    /\ [][/\ \A t \in Threads : C17_Order(t)
          /\ enabled' # enabled
                => \E t \in Threads :
                      pc[t] = "sw_enable" /\ enabled' = [enabled EXCEPT ![ThePe(t)] = TRUE]
          /\ \A h \in Slots :
                (pending[h] /\ ~pending'[h])
                   => \E t \in Threads : pc[t] = "sw_reset" /\ pe[t] = {h}
         ]_vars

\* a sweep that nothing disturbed has returned Ok(()) with every handle of the
\* catalog idle, enabled and not pending
C17_Witness ==
    /\ seq = 2
    /\ \A id \in DOMAIN pes : Range(pes[id]) = OfType(id)
    /\ \A h \in Slots : enabled[h] /\ ~pending[h]

\* ---- C18 ----
\* C18: in every reachable state the keys of the map are the types that the
\* catalog handed to Scheduler::new declares; no step adds or removes a key,
\* whatever it returns and even when it empties a pool.
C18_FixedKeySet ==
    /\ [](DOMAIN pes = Range(new_pes))
    /\ [][DOMAIN pes' = DOMAIN pes]_vars

\* a pool is empty, and a call for an unknown type has returned NoSuchPE
C18_Witness ==
    /\ \E id \in DOMAIN pes : pes[id] = <<>>
    /\ \E t \in Threads : ret[t].tag = "NoSuchPE"

\* ---- C19 ----
\* C19: in every reachable state every handle in the pool of a type is of that
\* type, and a handle that acquire_pe(id) returns is of type id.
C19_TypeHomogeneity ==
    /\ \A id \in DOMAIN pes : \A i \in 1 .. Len(pes[id]) : type_id(pes[id][i]) = id
    /\ \A t \in Threads :
          (pc[t] = "returned" /\ ret[t].tag = "Ok")
             => \A h \in ret[t].pe : type_id(h) = arg[t]

\* an acquire_pe of the second type has returned a handle while a sweep is
\* pushing the handles it drained from the first pool back
C19_Witness ==
    \E t, u \in Threads :
        /\ pc[t] = "returned"
        /\ ret[t].tag = "Ok"
        /\ arg[t] = KeyAt(2)
        /\ pc[u] = "sw_restore"
        /\ remove_pes[u] # <<>>
        /\ pes[KeyAt(1)] # <<>>

\* ---- C20 ----
\* C20: with every register operation returning and every thread that can take
\* a step eventually taking one, every reset_interrupts that is running
\* returns, whatever the other threads acquire and release meanwhile; the
\* drain of a pool removes at most as many handles as the catalog has entries
\* of the pool's type.
C20_SweepTerminates ==
    /\ \A t \in Threads : (pc[t] \in SweepPos) ~> (pc[t] = "returned")
    /\ [](\A t \in Threads :
             pc[t] \in SweepPos
                => Len(remove_pes[t]) + Cardinality(pe[t]) <= Cardinality(OfType(arg[t])))

\* a sweep has removed every handle of a type from its pool while another
\* thread is inside acquire_pe for that type
C20_Witness ==
    \E t, u \in Threads :
        /\ pc[t] \in SweepPos
        /\ Len(remove_pes[t]) = Cardinality(OfType(arg[t]))
        /\ Len(remove_pes[t]) >= 2
        /\ pc[u] \in AcqPos
        /\ arg[u] = arg[t]
====
